---------------------------- MODULE Spec2Model ----------------------------
(***************************************************************************)
(* A model of the cron expression utility of src/src/index.ts:             *)
(*   parseCronExpression, validateCronField, describeField, describeCron,  *)
(*   getNextExecutions and matchesField.                                   *)
(*                                                                         *)
(* A JavaScript string is a sequence of one-character strings, so that     *)
(* trim, split, includes, startsWith, substring, padStart and parseInt are *)
(* computed character by character as the runtime computes them.           *)
(* A JavaScript number that may be NaN is a record [nan, n].               *)
(* A Date is a record [min, ms]: its time value is min * 60000 + ms        *)
(* milliseconds since the epoch (the two parts keep the arithmetic inside  *)
(* 32-bit integers; AddMs carries from ms into min).                       *)
(***************************************************************************)
EXTENDS Integers, Sequences, FiniteSets, TLC

VARIABLES
    pc,           \* position of the running call
    tokens,       \* the fields the caller wrote into the expression
    expression,   \* parseCronExpression: the raw expression
    parsed,       \* a ParsedCron, or Null
    value,        \* validateCronField / matchesField: the field text
    min,          \* validateCronField: lower bound
    max,          \* validateCronField: upper bound
    candidate,    \* matchesField: the calendar value tested
    result,       \* what validateCronField / matchesField returned
    description,  \* what describeCron returned
    count,        \* getNextExecutions: number of executions asked for
    tz,           \* minutes the local clock is ahead of UTC
    now,          \* getNextExecutions: the wall clock read at entry
    current,      \* getNextExecutions: the candidate instant
    i,            \* getNextExecutions: loop counter
    dates         \* getNextExecutions: the executions collected

vars == <<pc, tokens, expression, parsed, value, min, max, candidate, result,
          description, count, tz, now, current, i, dates>>

---------------------------------------------------------------------------
(* Bounds of the model *)

MaxTokens == 7
MaxFieldLen == 4
MaxCount == 2

---------------------------------------------------------------------------
(* Strings *)

Str(S) == UNION {[1..n -> S] : n \in 0..MaxFieldLen}

IsWhitespace(c) == c \in {" ", "\t"}

IsDigit(c) == c \in {"0", "1", "2", "3", "4", "5", "6", "7", "8", "9"}

Digits == <<"0", "1", "2", "3", "4", "5", "6", "7", "8", "9">>

DigitValue(c) == (CHOOSE d \in 1..10 : Digits[d] = c) - 1

HexDigits == <<"0", "1", "2", "3", "4", "5", "6", "7", "8", "9", "a", "b", "c", "d", "e", "f">>

IsHexDigit(c) == \E d \in 1..16 : HexDigits[d] = c

HexValue(c) == (CHOOSE d \in 1..16 : HexDigits[d] = c) - 1

Tail2(s, k) == SubSeq(s, k, Len(s))

\* String.prototype.includes, for a one-character needle
Includes(s, c) == \E k \in 1..Len(s) : s[k] = c

\* String.prototype.startsWith
StartsWith(s, p) == Len(s) >= Len(p) /\ SubSeq(s, 1, Len(p)) = p

RECURSIVE TrimStart(_)
TrimStart(s) ==
    IF s # <<>> /\ IsWhitespace(s[1]) THEN TrimStart(Tail(s)) ELSE s

RECURSIVE TrimEnd(_)
TrimEnd(s) ==
    IF s # <<>> /\ IsWhitespace(s[Len(s)])
    THEN TrimEnd(SubSeq(s, 1, Len(s) - 1)) ELSE s

\* String.prototype.trim
Trim(s) == TrimEnd(TrimStart(s))

\* String.prototype.split(/\s+/)
RECURSIVE SplitWhitespace(_)
SplitWhitespace(s) ==
    IF \A k \in 1..Len(s) : ~IsWhitespace(s[k])
    THEN <<s>>
    ELSE LET first == CHOOSE k \in 1..Len(s) :
                          /\ IsWhitespace(s[k])
                          /\ \A j \in 1..(k - 1) : ~IsWhitespace(s[j])
             rest == TrimStart(Tail2(s, first))
         IN  <<SubSeq(s, 1, first - 1)>> \o SplitWhitespace(rest)

\* String.prototype.split(sep), for a one-character separator
RECURSIVE Split(_, _)
Split(s, sep) ==
    IF ~Includes(s, sep)
    THEN <<s>>
    ELSE LET first == CHOOSE k \in 1..Len(s) :
                          /\ s[k] = sep
                          /\ \A j \in 1..(k - 1) : s[j] # sep
         IN  <<SubSeq(s, 1, first - 1)>> \o Split(Tail2(s, first + 1), sep)

\* Array.prototype.join(sep); sep is a string
RECURSIVE Join(_, _)
Join(parts, sep) ==
    IF parts = <<>> THEN <<>>
    ELSE IF Len(parts) = 1 THEN parts[1]
    ELSE parts[1] \o sep \o Join(Tail(parts), sep)

\* String.prototype.padStart(2, "0")
PadStart2(s) ==
    IF Len(s) >= 2 THEN s ELSE IF Len(s) = 1 THEN <<"0">> \o s ELSE <<"0", "0">>

Lower == <<"a", "b", "c", "d", "e", "f", "g", "h", "i", "j", "k", "l", "m", "n", "o", "p", "q", "r", "s", "t", "u", "v", "w", "x", "y", "z">>

Upper == <<"A", "B", "C", "D", "E", "F", "G", "H", "I", "J", "K", "L", "M", "N", "O", "P", "Q", "R", "S", "T", "U", "V", "W", "X", "Y", "Z">>

\* String.prototype.toUpperCase, for one character
ToUpperCase(c) ==
    IF \E k \in 1..26 : Lower[k] = c
    THEN Upper[CHOOSE k \in 1..26 : Lower[k] = c]
    ELSE c

---------------------------------------------------------------------------
(* Numbers *)

NaN == [nan |-> TRUE, n |-> 0]

Num(n) == [nan |-> FALSE, n |-> n]

isNaN(x) == x.nan

\* a < b, a > b, a <= b, a >= b, a === b of two numbers: false when either is NaN
Less(a, b) == ~a.nan /\ ~b.nan /\ a.n < b.n

LessEq(a, b) == ~a.nan /\ ~b.nan /\ a.n <= b.n

StrictEq(a, b) == ~a.nan /\ ~b.nan /\ a.n = b.n

\* a % b === 0 for a >= 0: NaN (so false) when b is NaN or 0; the sign of b
\* does not change whether the remainder is zero
RemainderIsZero(a, b) ==
    /\ ~a.nan /\ ~b.nan /\ b.n # 0
    /\ a.n % (IF b.n < 0 THEN -b.n ELSE b.n) = 0

RECURSIVE DecimalPrefix(_, _)
\* the value of the longest prefix of decimal digits of s, after acc
DecimalPrefix(s, acc) ==
    IF s # <<>> /\ IsDigit(s[1])
    THEN DecimalPrefix(Tail(s), 10 * acc + DigitValue(s[1]))
    ELSE acc

RECURSIVE HexPrefix(_, _)
HexPrefix(s, acc) ==
    IF s # <<>> /\ IsHexDigit(s[1])
    THEN HexPrefix(Tail(s), 16 * acc + HexValue(s[1]))
    ELSE acc

\* parseInt(s, 10): leading whitespace skipped, an optional sign, then the
\* longest run of decimal digits; NaN when that run is empty
parseInt10(s) ==
    LET t == TrimStart(s)
        signed == t # <<>> /\ t[1] \in {"-", "+"}
        body == IF signed THEN Tail(t) ELSE t
        sign == IF signed /\ t[1] = "-" THEN -1 ELSE 1
    IN  IF body # <<>> /\ IsDigit(body[1])
        THEN Num(sign * DecimalPrefix(body, 0))
        ELSE NaN

\* parseInt(s): as parseInt(s, 10), except that a "0x" prefix selects radix 16
parseInt(s) ==
    LET t == TrimStart(s)
        signed == t # <<>> /\ t[1] \in {"-", "+"}
        body == IF signed THEN Tail(t) ELSE t
        sign == IF signed /\ t[1] = "-" THEN -1 ELSE 1
    IN  IF StartsWith(body, <<"0", "x">>)
        THEN IF Len(body) >= 3 /\ IsHexDigit(body[3])
             THEN Num(sign * HexPrefix(Tail2(body, 3), 0))
             ELSE NaN
        ELSE parseInt10(s)

RECURSIVE NatToString(_)
NatToString(n) ==
    IF n < 10 THEN <<Digits[n + 1]>>
    ELSE NatToString(n \div 10) \o <<Digits[(n % 10) + 1]>>

\* the text of an integer inside a template literal
NumberToString(n) == IF n < 0 THEN <<"-">> \o NatToString(-n) ELSE NatToString(n)

---------------------------------------------------------------------------
(* parseCronExpression *)

Null == [null |-> TRUE]

parseCronExpression_SixAsFive(e) ==
    LET parts == SplitWhitespace(Trim(e))
    IN  IF Len(parts) = 5 \/ Len(parts) = 6
        THEN [minute |-> parts[1], hour |-> parts[2], dayOfMonth |-> parts[3],
              month |-> parts[4], dayOfWeek |-> parts[5]]
        ELSE Null

parseCronExpression(e) ==
    LET parts == SplitWhitespace(Trim(e))
    IN  IF Len(parts) = 5
        THEN [minute |-> parts[1], hour |-> parts[2], dayOfMonth |-> parts[3],
              month |-> parts[4], dayOfWeek |-> parts[5]]
        ELSE IF Len(parts) = 6
        THEN [second |-> parts[1], minute |-> parts[2], hour |-> parts[3],
              dayOfMonth |-> parts[4], month |-> parts[5],
              dayOfWeek |-> parts[6]]
        ELSE Null

---------------------------------------------------------------------------
(* validateCronField *)

Valid == [valid |-> TRUE]

Invalid(error) == [valid |-> FALSE, error |-> error]

\* the text `${min}-${max}` that ends three of the four messages
MinMaxText(lo, hi) == NumberToString(lo) \o <<"-">> \o NumberToString(hi)

ValidateStep_BoundedByMax(v, lo, hi) ==
    LET step == parseInt10(Tail2(v, 3))
    IN  IF isNaN(step) \/ LessEq(step, Num(0)) \/ Less(Num(hi), step)
        THEN Invalid(<<"I", "n", "v", "a", "l", "i", "d", " ", "s", "t", "e", "p", " ", "v", "a", "l", "u", "e">>)
        ELSE Valid

\* step values (*/n)
ValidateStep(v, lo, hi) ==
    LET step == parseInt10(Tail2(v, 3))
    IN  IF isNaN(step) \/ LessEq(step, Num(0))
        THEN Invalid(<<"I", "n", "v", "a", "l", "i", "d", " ", "s", "t", "e", "p", " ", "v", "a", "l", "u", "e">>)
        ELSE Valid

ValidateRange_NoOrderCheck(v, lo, hi) ==
    LET parts == Split(v, "-")
        start == parseInt10(parts[1])
        end == parseInt10(parts[2])
    IN  IF \/ isNaN(start) \/ isNaN(end)
           \/ Less(start, Num(lo)) \/ Less(Num(hi), end)
        THEN Invalid(<<"R", "a", "n", "g", "e", " ", "m", "u", "s", "t", " ", "b", "e", " ">> \o MinMaxText(lo, hi))
        ELSE Valid

\* ranges (n-m): the first two pieces of the split are start and end
ValidateRange(v, lo, hi) ==
    LET parts == Split(v, "-")
        start == parseInt10(parts[1])
        end == parseInt10(parts[2])
    IN  IF \/ isNaN(start) \/ isNaN(end)
           \/ Less(start, Num(lo)) \/ Less(Num(hi), end)
           \/ Less(end, start)
        THEN Invalid(<<"R", "a", "n", "g", "e", " ", "m", "u", "s", "t", " ", "b", "e", " ">> \o MinMaxText(lo, hi))
        ELSE Valid

\* lists (n,m,o)
ValidateList(v, lo, hi) ==
    LET parts == Split(v, ",")
        values == [k \in 1..Len(parts) |-> parseInt10(parts[k])]
    IN  IF \E k \in 1..Len(values) :
               \/ isNaN(values[k])
               \/ Less(values[k], Num(lo))
               \/ Less(Num(hi), values[k])
        THEN Invalid(<<"V", "a", "l", "u", "e", "s", " ", "m", "u", "s", "t", " ", "b", "e", " ">> \o MinMaxText(lo, hi))
        ELSE Valid

ValidateSingle_MessageWithoutBounds(v, lo, hi) ==
    LET num == parseInt10(v)
    IN  IF isNaN(num) \/ Less(num, Num(lo)) \/ Less(Num(hi), num)
        THEN Invalid(<<"M", "u", "s", "t", " ", "b", "e", " ", "a", " ", "n", "u", "m", "b", "e", "r">>)
        ELSE Valid

\* single value
ValidateSingle(v, lo, hi) ==
    LET num == parseInt10(v)
    IN  IF isNaN(num) \/ Less(num, Num(lo)) \/ Less(Num(hi), num)
        THEN Invalid(<<"M", "u", "s", "t", " ", "b", "e", " ">> \o MinMaxText(lo, hi))
        ELSE Valid

validateCronField(v, lo, hi) ==
    IF v = <<"*">> THEN Valid
    ELSE IF StartsWith(v, <<"*", "/">>) THEN ValidateStep(v, lo, hi)
    ELSE IF Includes(v, "-") THEN ValidateRange(v, lo, hi)
    ELSE IF Includes(v, ",") THEN ValidateList(v, lo, hi)
    ELSE ValidateSingle(v, lo, hi)

---------------------------------------------------------------------------
(* matchesField *)

MatchesStep_NaNMatches(field, v) ==
    LET step == parseInt10(Tail2(field, 3))
    IN  isNaN(step) \/ RemainderIsZero(Num(v), step)

\* value % step === 0
MatchesStep(field, v) ==
    LET step == parseInt10(Tail2(field, 3))
    IN  RemainderIsZero(Num(v), step)

\* value >= start && value <= end, of the first two pieces of the split
MatchesRange(field, v) ==
    LET parts == Split(field, "-")
        start == parseInt10(parts[1])
        end == parseInt10(parts[2])
    IN  LessEq(start, Num(v)) /\ LessEq(Num(v), end)

\* values.includes(value): v is an integer, so a NaN element never equals it
MatchesList(field, v) ==
    LET parts == Split(field, ",")
    IN  \E k \in 1..Len(parts) : StrictEq(parseInt10(parts[k]), Num(v))

MatchesSingle(field, v) == StrictEq(parseInt10(field), Num(v))

matchesField(field, v) ==
    IF field = <<"*">> THEN TRUE
    ELSE IF StartsWith(field, <<"*", "/">>) THEN MatchesStep(field, v)
    ELSE IF Includes(field, "-") THEN MatchesRange(field, v)
    ELSE IF Includes(field, ",") THEN MatchesList(field, v)
    ELSE MatchesSingle(field, v)

---------------------------------------------------------------------------
(* describeField and describeCron *)

describeField(v, fieldName) ==
    IF v = <<"*">> THEN <<"e", "v", "e", "r", "y", " ">> \o fieldName
    ELSE IF StartsWith(v, <<"*", "/">>) THEN
        LET step == Tail2(v, 3)
        IN  <<"e", "v", "e", "r", "y", " ">> \o step \o <<" ">> \o fieldName \o
                (IF Less(Num(1), parseInt(step)) THEN <<"s">> ELSE <<>>)
    ELSE IF Includes(v, "-") THEN
        LET parts == Split(v, "-")
        IN  fieldName \o <<"s", " ">> \o parts[1] \o <<" ", "t", "h", "r", "o", "u", "g", "h", " ">> \o parts[2]
    ELSE IF Includes(v, ",") THEN
        fieldName \o <<"s", " ">> \o Join(Split(v, ","), <<",", " ">>)
    ELSE fieldName \o <<" ">> \o v

monthNames ==
    <<<<"J", "a", "n", "u", "a", "r", "y">>, <<"F", "e", "b", "r", "u", "a", "r", "y">>, <<"M", "a", "r", "c", "h">>, <<"A", "p", "r", "i", "l">>, <<"M", "a", "y">>, <<"J", "u", "n", "e">>, <<"J", "u", "l", "y">>,
      <<"A", "u", "g", "u", "s", "t">>, <<"S", "e", "p", "t", "e", "m", "b", "e", "r">>, <<"O", "c", "t", "o", "b", "e", "r">>, <<"N", "o", "v", "e", "m", "b", "e", "r">>, <<"D", "e", "c", "e", "m", "b", "e", "r">>>>

dayNames ==
    <<<<"S", "u", "n", "d", "a", "y">>, <<"M", "o", "n", "d", "a", "y">>, <<"T", "u", "e", "s", "d", "a", "y">>, <<"W", "e", "d", "n", "e", "s", "d", "a", "y">>, <<"T", "h", "u", "r", "s", "d", "a", "y">>, <<"F", "r", "i", "d", "a", "y">>,
      <<"S", "a", "t", "u", "r", "d", "a", "y">>>>

\* names[index] of a zero-based array as join renders it: an index outside
\* the array reads undefined, which join renders as the empty string
NameAt(names, index) ==
    IF index \in 0..(Len(names) - 1) THEN names[index + 1] ELSE <<>>

\* d => { const dayNum = parseInt(d, 10); return isNaN(dayNum) ? d : dayNames[dayNum]; }
DayName(d) ==
    LET dayNum == parseInt10(d)
    IN  IF isNaN(dayNum) THEN d ELSE NameAt(dayNames, dayNum.n)

\* m => { const monthNum = parseInt(m, 10); return isNaN(monthNum) ? m : monthNames[monthNum - 1]; }
MonthName(m) ==
    LET monthNum == parseInt10(m)
    IN  IF isNaN(monthNum) THEN m ELSE NameAt(monthNames, monthNum.n - 1)

\* field.split(",").map(name).join(", ")
DayNamesOf(field) ==
    LET parts == Split(field, ",")
    IN  Join([k \in 1..Len(parts) |-> DayName(parts[k])], <<",", " ">>)

MonthNamesOf(field) ==
    LET parts == Split(field, ",")
    IN  Join([k \in 1..Len(parts) |-> MonthName(parts[k])], <<",", " ">>)

HasListRangeOrStep(field) ==
    Includes(field, ",") \/ Includes(field, "-") \/ Includes(field, "/")

TimePart(p) ==
    LET secondPart ==
            IF "second" \in DOMAIN p /\ p.second # <<>> /\ p.second # <<"*">>
            THEN <<"a", "t", " ">> \o describeField(p.second, <<"s", "e", "c", "o", "n", "d">>)
            ELSE <<>>
    IN  IF p.minute = <<"*">> /\ p.hour = <<"*">>
        THEN IF secondPart # <<>>
             THEN secondPart \o <<",", " ", "e", "v", "e", "r", "y", " ", "m", "i", "n", "u", "t", "e">>
             ELSE <<"e", "v", "e", "r", "y", " ", "m", "i", "n", "u", "t", "e">>
        ELSE IF p.minute # <<"*">> /\ p.hour = <<"*">>
        THEN <<"a", "t", " ">> \o describeField(p.minute, <<"m", "i", "n", "u", "t", "e">>) \o <<" ", "p", "a", "s", "t", " ", "e", "v", "e", "r", "y", " ", "h", "o", "u", "r">>
        ELSE IF p.minute = <<"*">> /\ p.hour # <<"*">>
        THEN <<"e", "v", "e", "r", "y", " ", "m", "i", "n", "u", "t", "e", " ", "d", "u", "r", "i", "n", "g", " ">> \o describeField(p.hour, <<"h", "o", "u", "r">>)
        ELSE LET hourDesc == IF HasListRangeOrStep(p.hour)
                             THEN describeField(p.hour, <<"h", "o", "u", "r">>)
                             ELSE PadStart2(p.hour)
                 minuteDesc == IF HasListRangeOrStep(p.minute)
                               THEN describeField(p.minute, <<"m", "i", "n", "u", "t", "e">>)
                               ELSE PadStart2(p.minute)
             IN  <<"a", "t", " ">> \o hourDesc \o <<":">> \o minuteDesc

DayPart(p) ==
    IF p.dayOfMonth # <<"*">> /\ p.dayOfWeek # <<"*">>
    THEN <<"o", "n", " ">> \o describeField(p.dayOfMonth, <<"d", "a", "y">>) \o <<" ", "a", "n", "d", " ">> \o
             DayNamesOf(p.dayOfWeek)
    ELSE IF p.dayOfMonth # <<"*">>
    THEN <<"o", "n", " ">> \o describeField(p.dayOfMonth, <<"d", "a", "y", " ", "o", "f", " ", "m", "o", "n", "t", "h">>)
    ELSE IF p.dayOfWeek # <<"*">>
    THEN <<"o", "n", " ">> \o DayNamesOf(p.dayOfWeek)
    ELSE <<>>

MonthPart(p) ==
    IF p.month # <<"*">> THEN <<"i", "n", " ">> \o MonthNamesOf(p.month) ELSE <<>>

describeCron(p) ==
    LET fragments == SelectSeq(<<TimePart(p), DayPart(p), MonthPart(p)>>,
                               LAMBDA f : f # <<>>)
        text == Join(fragments, <<" ">>)
    IN  IF text = <<>> THEN <<>>
        ELSE <<ToUpperCase(text[1])>> \o Tail(text)

---------------------------------------------------------------------------
(* Date *)

MsPerMinute == 60000

\* new Date(t.getTime() + d) for 0 <= d
AddMs(t, d) ==
    LET total == t.ms + d
    IN  [min |-> t.min + (total \div MsPerMinute), ms |-> total % MsPerMinute]

\* minutes of local time since the epoch
LocalMinutes(t, zone) == t.min + zone

\* the proleptic Gregorian date of a day number (days since 1970-01-01)
CivilFromDays(days) ==
    LET z == days + 719468
        era == z \div 146097
        doe == z - era * 146097
        yoe == (doe - (doe \div 1460) + (doe \div 36524) - (doe \div 146096))
                   \div 365
        doy == doe - (365 * yoe + (yoe \div 4) - (yoe \div 100))
        mp == (5 * doy + 2) \div 153
    IN  [year |-> yoe + era * 400 + (IF mp < 10 THEN 0 ELSE 1),
         month |-> IF mp < 10 THEN mp + 3 ELSE mp - 9,
         day |-> doy - ((153 * mp + 2) \div 5) + 1]

getMinutes(t, zone) == LocalMinutes(t, zone) % 60

getHours(t, zone) == (LocalMinutes(t, zone) \div 60) % 24

getDate(t, zone) == CivilFromDays(LocalMinutes(t, zone) \div 1440).day

\* getMonth() + 1
getMonthPlus1(t, zone) == CivilFromDays(LocalMinutes(t, zone) \div 1440).month

\* 1970-01-01 was a Thursday
getDay(t, zone) == ((LocalMinutes(t, zone) \div 1440) + 4) % 7

---------------------------------------------------------------------------
(* getNextExecutions *)

IterationsPerExecution == 100

StartInstant_Truncated(t) == [t EXCEPT !.ms = (t.ms \div 1000) * 1000]

\* let current = new Date(now.getTime())
StartInstant(t) == t

Advance_Nowhere(t) == AddMs(t, 0)

\* current = new Date(current.getTime() + 60000)
Advance(t) == AddMs(t, MsPerMinute)

LoopContinues_OffByOne(n, c, ds) ==
    n <= c * IterationsPerExecution /\ Len(ds) < c

\* i < count * 100 && dates.length < count
LoopContinues(n, c, ds) == n < c * IterationsPerExecution /\ Len(ds) < c

AllFieldsMatch_SkipsDayOfWeek(p, t, zone) ==
    /\ matchesField(p.minute, getMinutes(t, zone))
    /\ matchesField(p.hour, getHours(t, zone))
    /\ matchesField(p.dayOfMonth, getDate(t, zone))
    /\ matchesField(p.month, getMonthPlus1(t, zone))

\* none of the five tests takes the continue
AllFieldsMatch(p, t, zone) ==
    /\ matchesField(p.minute, getMinutes(t, zone))
    /\ matchesField(p.hour, getHours(t, zone))
    /\ matchesField(p.dayOfMonth, getDate(t, zone))
    /\ matchesField(p.month, getMonthPlus1(t, zone))
    /\ matchesField(p.dayOfWeek, getDay(t, zone))

---------------------------------------------------------------------------
(* Values of the variables a specification does not use *)

Epoch == [min |-> 0, ms |-> 0]

IdleParse == tokens = <<>> /\ expression = <<>> /\ parsed = Null

IdleField ==
    value = <<>> /\ min = 0 /\ max = 0 /\ candidate = 0 /\ result = Null

IdleDescribe == description = <<>>

IdleSimulator ==
    /\ count = 0 /\ tz = 0 /\ now = Epoch /\ current = Epoch
    /\ i = 0 /\ dates = <<>>

---------------------------------------------------------------------------
(* parseCronExpression applied to expressions of 0..MaxTokens fields, with *)
(* and without surrounding whitespace, separated by one or two whitespace  *)
(* characters                                                              *)

TokenTexts == {<<"*", "/", "5">>, <<"9">>}

TokenSeqs == UNION {[1..n -> TokenTexts] : n \in 0..MaxTokens}

Leading == {<<>>, <<" ", " ">>}

Separators == {<<" ">>, <<"\t", " ">>}

Trailing == {<<>>, <<" ", "\t">>}

InitParse ==
    /\ pc = "parse"
    /\ tokens \in TokenSeqs
    /\ \E lead \in Leading, sep \in Separators, trail \in Trailing :
           expression = lead \o Join(tokens, sep) \o trail
    /\ parsed = Null
    /\ IdleField /\ IdleDescribe /\ IdleSimulator

Parse ==
    /\ pc = "parse"
    /\ parsed' = parseCronExpression(expression)
    /\ pc' = "done"
    /\ UNCHANGED <<tokens, expression, value, min, max, candidate, result,
                   description, count, tz, now, current, i, dates>>

NextParse == Parse

SpecParse == InitParse /\ [][NextParse]_vars

---------------------------------------------------------------------------
(* validateCronField and matchesField applied to every text of at most     *)
(* MaxFieldLen characters over FieldAlphabet, and to the texts the         *)
(* specification names                                                     *)

FieldAlphabet == {"*", "/", "-", ",", "1", "5", "x"}

FieldExamples ==
    {<<"0">>, <<"5", "9">>, <<"7", "0">>, <<"1", "0", "-", "5">>, <<"*", "/", "0">>, <<"*", "/", "-", "1">>, <<"*", "/", "1", "5">>, <<"*", "/", "1", "0", "0", "0">>,
     <<"1", "-", "5", "-", "9">>, <<"1", "-", "5", "-", "x">>, <<"1", "-", "5", ",", "7">>, <<"1", ",", "x", "-", "5">>, <<"1", "0", ",", "2", "0", ",", "x">>, <<" ", "5">>, <<"+", "5">>, <<"5", "x">>}

FieldTexts == Str(FieldAlphabet) \cup FieldExamples

\* (min, max) of minute, hour, day of month, month, day of week
FieldDomains == {<<0, 59>>, <<0, 23>>, <<1, 31>>, <<1, 12>>, <<0, 6>>}

InitValidate ==
    /\ pc = "validate"
    /\ value \in FieldTexts
    /\ \E d \in FieldDomains : min = d[1] /\ max = d[2]
    /\ candidate = 0
    /\ result = Null
    /\ IdleParse /\ IdleDescribe /\ IdleSimulator

Validate ==
    /\ pc = "validate"
    /\ result' = validateCronField(value, min, max)
    /\ pc' = "done"
    /\ UNCHANGED <<tokens, expression, parsed, value, min, max, candidate,
                   description, count, tz, now, current, i, dates>>

NextValidate == Validate

SpecValidate == InitValidate /\ [][NextValidate]_vars

Candidates == {0, 1, 5, 10, 15}

InitMatch ==
    /\ pc = "match"
    /\ value \in FieldTexts
    /\ candidate \in Candidates
    /\ min = 0 /\ max = 0
    /\ result = Null
    /\ IdleParse /\ IdleDescribe /\ IdleSimulator

Match ==
    /\ pc = "match"
    /\ result' = [matches |-> matchesField(value, candidate)]
    /\ pc' = "done"
    /\ UNCHANGED <<tokens, expression, parsed, value, min, max, candidate,
                   description, count, tz, now, current, i, dates>>

NextMatch == Match

SpecMatch == InitMatch /\ [][NextMatch]_vars

---------------------------------------------------------------------------
(* describeCron applied to 5-field and 6-field records *)

DayNumbers == 0..6

DayRanges ==
    {NumberToString(a) \o <<"-">> \o NumberToString(b) :
        a \in DayNumbers, b \in DayNumbers}

DescribeMinutes == {<<"*">>, <<"0">>, <<"5">>, <<"3", "0">>, <<"*", "/", "1", "5">>}

DescribeHours == {<<"*">>, <<"9">>, <<"1", "7">>, <<"1", "-", "5">>}

DescribeDaysOfMonth == {<<"*">>, <<"1", "5">>}

DescribeMonths == {<<"*">>, <<"1", ",", "6">>}

DescribeDaysOfWeek == {<<"*">>, <<"1", ",", "3">>, <<"4">>} \cup DayRanges

DescribeSeconds == {<<"*", "/", "1", "0">>}

DescribeFiveFields ==
    [minute : DescribeMinutes, hour : DescribeHours,
     dayOfMonth : DescribeDaysOfMonth, month : DescribeMonths,
     dayOfWeek : DescribeDaysOfWeek]

DescribeSixFields ==
    [second : DescribeSeconds, minute : DescribeMinutes, hour : DescribeHours,
     dayOfMonth : DescribeDaysOfMonth, month : DescribeMonths,
     dayOfWeek : DescribeDaysOfWeek]

InitDescribe ==
    /\ pc = "describe"
    /\ parsed \in DescribeFiveFields \cup DescribeSixFields
    /\ tokens = <<>> /\ expression = <<>>
    /\ description = <<>>
    /\ IdleField /\ IdleSimulator

Describe ==
    /\ pc = "describe"
    /\ description' = describeCron(parsed)
    /\ pc' = "done"
    /\ UNCHANGED <<tokens, expression, parsed, value, min, max, candidate,
                   result, count, tz, now, current, i, dates>>

NextDescribe == Describe

SpecDescribe == InitDescribe /\ [][NextDescribe]_vars

---------------------------------------------------------------------------
(* getNextExecutions applied to parsed expressions, from several readings *)
(* of the wall clock                                                       *)

SimulatedExpressions ==
    {<<"*", " ", "*", " ", "*", " ", "*", " ", "*">>, <<"*", "/", "1", "5", " ", "*", " ", "*", " ", "*", " ", "*">>, <<"0", " ", "0", " ", "*", " ", "*", " ", "*">>, <<"4", "5", " ", "2", "3", " ", "*", " ", "*", " ", "3">>,
     <<"*", " ", "*", " ", "3", "1", " ", "2", " ", "*">>, <<"*", " ", "*", " ", "3", "1", " ", "*", " ", "*">>, <<"*", " ", "*", " ", "*", " ", "2", " ", "*">>, <<"0", " ", "*", " ", "1", " ", "*", " ", "*">>,
     <<"3", "0", "-", "4", "0", " ", "2", "3", " ", "*", " ", "*", " ", "*">>, <<"0", ",", "3", "0", " ", "*", " ", "*", " ", "*", " ", "0", "-", "1">>, <<"*", "/", "2", "0", " ", "*", "/", "6", " ", "*", " ", "*", " ", "*">>,
     <<"1", ",", "x", " ", "*", " ", "*", " ", "*", " ", "*">>, <<"*", "/", "x", " ", "*", " ", "*", " ", "*", " ", "*">>, <<"5", " ", "x", " ", "*", " ", "*", " ", "*">>, <<"0", " ", "0", " ", "1", "-", "x", " ", "*", " ", "*">>,
     <<"x", ",", "y", " ", "*", " ", "*", " ", "*", " ", "*">>, <<"*", " ", "*", " ", "*", " ", "*", " ", "1", ",", "x">>,
     <<"3", "0", " ", "*", " ", "*", " ", "*", " ", "*", " ", "*">>, <<"x", " ", "0", " ", "0", " ", "*", " ", "*", " ", "*">>, <<"1", "5", " ", "0", ",", "3", "0", " ", "*", " ", "*", " ", "*", " ", "0", "-", "1">>}

\* 2024-01-31 23:30:00.000, 2024-02-28 23:10:30.500, 2026-11-03 10:41:37.123
\* and 2023-12-31 23:00:59.999 (a Sunday), all UTC
WallClockReadings ==
    {[min |-> 28445730, ms |-> 0], [min |-> 28486030, ms |-> 30500],
     [min |-> 29895041, ms |-> 37123], [min |-> 28401060, ms |-> 59999]}

TimeZoneOffsets == {0, 330}

InitSimulator ==
    /\ pc = "call"
    /\ expression \in SimulatedExpressions
    /\ tokens = <<>>
    /\ parsed = parseCronExpression(expression)
    /\ count \in 0..MaxCount
    /\ tz \in TimeZoneOffsets
    /\ now = Epoch /\ current = Epoch /\ i = 0 /\ dates = <<>>
    /\ IdleField /\ IdleDescribe

\* const dates = []; const now = new Date(); let current = new Date(now.getTime())
Begin ==
    /\ pc = "call"
    /\ now' \in WallClockReadings
    /\ current' = StartInstant(now')
    /\ dates' = <<>>
    /\ i' = 0
    /\ pc' = "loop"
    /\ UNCHANGED <<tokens, expression, parsed, value, min, max, candidate,
                   result, description, count, tz>>

\* one pass through the body of the for loop
Iterate ==
    /\ pc = "loop"
    /\ LoopContinues(i, count, dates)
    /\ current' = Advance(current)
    /\ dates' = IF AllFieldsMatch(parsed, current', tz)
                THEN Append(dates, current')
                ELSE dates
    /\ i' = i + 1
    /\ UNCHANGED <<pc, tokens, expression, parsed, value, min, max, candidate,
                   result, description, count, tz, now>>

\* return dates
Return ==
    /\ pc = "loop"
    /\ ~LoopContinues(i, count, dates)
    /\ pc' = "done"
    /\ UNCHANGED <<tokens, expression, parsed, value, min, max, candidate,
                   result, description, count, tz, now, current, i, dates>>

NextSimulator == Begin \/ Iterate \/ Return

SpecSimulator == InitSimulator /\ [][NextSimulator]_vars

\* The same call on fewer inputs, with the fairness of a synchronous call:
\* once made it runs to its end, nothing suspends it
TerminationExpressions ==
    {<<"*", " ", "*", " ", "*", " ", "*", " ", "*">>, <<"*", " ", "*", " ", "3", "1", " ", "2", " ", "*">>, <<"*", " ", "*", " ", "3", "1", " ", "*", " ", "*">>, <<"0", " ", "0", " ", "*", " ", "*", " ", "*">>,
     <<"*", "/", "x", " ", "*", " ", "*", " ", "*", " ", "*">>, <<"3", "0", " ", "*", " ", "*", " ", "*", " ", "*", " ", "*">>}

InitTermination ==
    /\ InitSimulator
    /\ expression \in TerminationExpressions
    /\ tz = 0

FairSpecSimulator ==
    InitTermination /\ [][NextSimulator]_vars /\ WF_vars(NextSimulator)

---------------------------------------------------------------------------
(* Notions the claims are stated in *)

\* s contains p as a substring
Contains(s, p) ==
    \E k \in 0..(Len(s) - Len(p)) : SubSeq(s, k + 1, k + Len(p)) = p

\* instant a is earlier than instant b
Before(a, b) == a.min < b.min \/ (a.min = b.min /\ a.ms < b.ms)

---------------------------------------------------------------------------
(* Claims about parseCronExpression *)

FiveField(t) ==
    [minute |-> t[1], hour |-> t[2], dayOfMonth |-> t[3], month |-> t[4],
     dayOfWeek |-> t[5]]

SixField(t) ==
    [second |-> t[1], minute |-> t[2], hour |-> t[3], dayOfMonth |-> t[4],
     month |-> t[5], dayOfWeek |-> t[6]]

\* C4: parse returns null for every expression whose token count is not 5
\* or 6; on 5 tokens it returns the five fields in order and no second
\* field; on 6 tokens the first token is the second field and the other
\* five follow in order.
C4_ParseShape ==
    pc = "done" =>
        /\ Len(tokens) \notin {5, 6} => parsed = Null
        /\ Len(tokens) = 5 =>
               parsed = FiveField(tokens) /\ "second" \notin DOMAIN parsed
        /\ Len(tokens) = 6 =>
               parsed = SixField(tokens) /\ parsed.second = tokens[1]

C4_Witness ==
    /\ pc = "done"
    /\ Len(tokens) = 6
    /\ StartsWith(expression, <<" ", " ">>)
    /\ parsed # Null
    /\ parsed.second = <<"9">>
    /\ parsed.minute = <<"*", "/", "5">>

---------------------------------------------------------------------------
(* Claims about validateCronField *)

HasError(r) == "error" \in DOMAIN r

ReferencesMinMax(text, lo, hi) ==
    Contains(text, NumberToString(lo)) /\ Contains(text, NumberToString(hi))

\* C5, as stated: error is absent when valid is true; when valid is false
\* error is present and references the field's min and max.
C5_ErrorReferencesMinMax ==
    pc = "done" =>
        /\ result.valid => ~HasError(result)
        /\ ~result.valid =>
               HasError(result) /\ ReferencesMinMax(result.error, min, max)

\* C5, amended: error is absent when valid is true; when valid is false
\* error is present, and it is "Invalid step value" for a value that starts
\* with "*/" and a reason ending in "<min>-<max>" for every other value.
C5_ErrorShape ==
    pc = "done" =>
        /\ result.valid => ~HasError(result)
        /\ ~result.valid =>
               /\ HasError(result)
               /\ IF StartsWith(value, <<"*", "/">>)
                  THEN result.error = <<"I", "n", "v", "a", "l", "i", "d", " ", "s", "t", "e", "p", " ", "v", "a", "l", "u", "e">>
                  ELSE /\ ReferencesMinMax(result.error, min, max)
                       /\ \E k \in 1..Len(result.error) :
                              Tail2(result.error, k) = MinMaxText(min, max)

C5_Witness ==
    /\ pc = "done"
    /\ ~result.valid
    /\ StartsWith(value, <<"*", "/">>)
    /\ ~ReferencesMinMax(result.error, min, max)

RangeAccepted(v, lo, hi) ==
    LET parts == Split(v, "-")
        start == parseInt10(parts[1])
        end == parseInt10(parts[2])
    IN  /\ ~isNaN(start) /\ ~isNaN(end)
        /\ start.n >= lo /\ end.n <= hi /\ start.n <= end.n

\* C6: a value that is not "*", does not start with "*/" and contains "-"
\* (also when it contains ",") is valid iff the two integers it splits into
\* on "-" both parse and start >= min, end <= max, start <= end; "10-5" on
\* 0-59 is invalid.  start and end are the first two pieces of the split,
\* and a piece parses when parseInt reads an integer at its head.
C6_RangeValidity ==
    (pc = "done" /\ value # <<"*">> /\ ~StartsWith(value, <<"*", "/">>)
        /\ Includes(value, "-")) =>
        /\ result.valid <=> RangeAccepted(value, min, max)
        /\ (value = <<"1", "0", "-", "5">> /\ min = 0 /\ max = 59) => ~result.valid

C6_Witness ==
    /\ pc = "done"
    /\ Includes(value, "-") /\ Includes(value, ",")
    /\ ~StartsWith(value, <<"*", "/">>)
    /\ result.valid

\* C7: a value that starts with "*/" is valid iff the rest parses as an
\* integer greater than 0, whatever max is; "*/0" and "*/-1" on 0-59 are
\* invalid with the error "Invalid step value".
C7_StepValidity ==
    (pc = "done" /\ StartsWith(value, <<"*", "/">>)) =>
        LET step == parseInt10(Tail2(value, 3))
        IN  /\ result.valid <=> (~isNaN(step) /\ step.n > 0)
            /\ (value \in {<<"*", "/", "0">>, <<"*", "/", "-", "1">>} /\ min = 0 /\ max = 59) =>
                   result = Invalid(<<"I", "n", "v", "a", "l", "i", "d", " ", "s", "t", "e", "p", " ", "v", "a", "l", "u", "e">>)

C7_Witness ==
    /\ pc = "done"
    /\ value = <<"*", "/", "1", "0", "0", "0">>
    /\ max = 59
    /\ result.valid

---------------------------------------------------------------------------
(* Claims about matchesField *)

\* the form matchesField reads a field in
IsStepForm(f) == StartsWith(f, <<"*", "/">>)

IsRangeForm(f) == ~IsStepForm(f) /\ Includes(f, "-")

IsListForm(f) == ~IsStepForm(f) /\ ~Includes(f, "-") /\ Includes(f, ",")

IsSingleForm(f) ==
    ~IsStepForm(f) /\ ~Includes(f, "-") /\ ~Includes(f, ",")

\* some numeric sub-token of the field does not parse as an integer (of a
\* range, the two pieces matchesField reads as start and end)
Malformed(f) ==
    /\ f # <<"*">>
    /\ \/ IsStepForm(f) /\ isNaN(parseInt10(Tail2(f, 3)))
       \/ IsRangeForm(f) /\
              \E k \in 1..2 : isNaN(parseInt10(Split(f, "-")[k]))
       \/ IsListForm(f) /\
              \E k \in 1..Len(Split(f, ",")) : isNaN(parseInt10(Split(f, ",")[k]))
       \/ IsSingleForm(f) /\ isNaN(parseInt10(f))

\* no sub-token that matchesField compares the candidate with parses
NeverMatching(f) ==
    /\ f # <<"*">>
    /\ \/ IsStepForm(f) /\ isNaN(parseInt10(Tail2(f, 3)))
       \/ IsRangeForm(f) /\
              \E k \in 1..2 : isNaN(parseInt10(Split(f, "-")[k]))
       \/ IsListForm(f) /\
              \A k \in 1..Len(Split(f, ",")) : isNaN(parseInt10(Split(f, ",")[k]))
       \/ IsSingleForm(f) /\ isNaN(parseInt10(f))

\* C3, as stated: a field other than "*" with a sub-token that does not
\* parse as an integer matches no candidate.
C3_MalformedNeverMatches ==
    (pc = "done" /\ Malformed(value)) => ~result.matches

\* C3, amended: a field other than "*" matches no candidate when its step
\* does not parse, when the first or the second piece of its range does not
\* parse, when it is a single value that does not parse, or when it is a
\* list none of whose elements parses; a list with some elements that do
\* not parse matches exactly the candidates equal to an element that does.
C3_UnparsedNeverMatches ==
    pc = "done" =>
        /\ NeverMatching(value) => ~result.matches
        /\ (IsListForm(value) /\ Malformed(value)) =>
               (result.matches <=>
                   \E k \in 1..Len(Split(value, ",")) :
                       parseInt10(Split(value, ",")[k]) = Num(candidate))

C3_Witness ==
    /\ pc = "done"
    /\ IsListForm(value)
    /\ NeverMatching(value)
    /\ Len(value) > 2
    /\ ~result.matches

---------------------------------------------------------------------------
(* Claims about describeCron *)

IsNumeral(s) == s # <<>> /\ \A k \in 1..Len(s) : IsDigit(s[k])

\* a 5-field record: single minute and hour, every day of month, every
\* month, and a day-of-week range a-b with 0 <= a <= b <= 6
IsWeekdayRangeAtFixedTime(p) ==
    /\ "second" \notin DOMAIN p
    /\ IsNumeral(p.minute) /\ IsNumeral(p.hour)
    /\ p.dayOfMonth = <<"*">> /\ p.month = <<"*">>
    /\ \E a \in DayNumbers, b \in DayNumbers :
           /\ a <= b
           /\ p.dayOfWeek = NumberToString(a) \o <<"-">> \o NumberToString(b)

RangeStart(p) == parseInt10(Split(p.dayOfWeek, "-")[1]).n

RangeEnd(p) == parseInt10(Split(p.dayOfWeek, "-")[2]).n

\* C8: for a 5-field record with single minute and hour, "*" day of month
\* and month, and day-of-week range a-b, the description contains
\* "at HH:MM", zero-padded (here also accepted capitalised at the start of
\* the sentence), and its day fragment names the first and the last day of
\* the range.
C8_DescribesWeekdayRange ==
    (pc = "done" /\ IsWeekdayRangeAtFixedTime(parsed)) =>
        LET time == PadStart2(parsed.hour) \o <<":">> \o PadStart2(parsed.minute)
        IN  /\ \/ Contains(description, <<"a", "t", " ">> \o time)
               \/ StartsWith(description, <<"A", "t", " ">> \o time)
            /\ Contains(description, dayNames[RangeStart(parsed) + 1])
            /\ Contains(description, dayNames[RangeEnd(parsed) + 1])

---------------------------------------------------------------------------
(* Claims about getNextExecutions *)

\* the start plus k minutes
StartPlusMinutes(k) == [min |-> now.min + k, ms |-> now.ms]

FiveFieldsMatch(p, t) ==
    /\ matchesField(p.minute, getMinutes(t, tz))
    /\ matchesField(p.hour, getHours(t, tz))
    /\ matchesField(p.dayOfMonth, getDate(t, tz))
    /\ matchesField(p.month, getMonthPlus1(t, tz))
    /\ matchesField(p.dayOfWeek, getDay(t, tz))

\* the first count matching instants among start + 1 .. start + count * 100
\* minutes, or all of them when fewer match
ExpectedExecutions ==
    LET all == [k \in 1..(count * 100) |-> StartPlusMinutes(k)]
        matching == SelectSeq(all, LAMBDA t : FiveFieldsMatch(parsed, t))
    IN  SubSeq(matching, 1, IF Len(matching) < count THEN Len(matching) ELSE count)

IsUnsatisfiable(p) == p.dayOfMonth = <<"3", "1">> /\ p.month = <<"2">>

\* C1: nextExecutions ends after at most count * 100 one-minute advances
\* and returns at most count timestamps; when it returns fewer than count
\* the ceiling was reached; for day of month 31 in month 2 it returns the
\* empty sequence.
C1_BoundedSearch ==
    /\ [](/\ current.min - now.min <= count * 100
          /\ Len(dates) <= count
          /\ (pc = "done" /\ Len(dates) < count) =>
                 current.min - now.min = count * 100
          /\ (pc = "done" /\ IsUnsatisfiable(parsed)) => dates = <<>>)
    /\ <>(pc = "done")

C1_Witness ==
    /\ pc = "done"
    /\ IsUnsatisfiable(parsed)
    /\ count = 2
    /\ current.min - now.min = 200
    /\ getDate(now, tz) = 31
    /\ getMonthPlus1(current, tz) = 2
    /\ dates = <<>>

\* C2: for a 5-field record the returned timestamps are strictly
\* increasing, and each is at least the start plus one minute.
C2_Increasing ==
    "second" \notin DOMAIN parsed =>
        \A j \in 1..Len(dates) :
            /\ ~Before(dates[j], StartPlusMinutes(1))
            /\ j > 1 => Before(dates[j - 1], dates[j])

C2_Witness ==
    /\ pc = "done"
    /\ "second" \notin DOMAIN parsed
    /\ Len(dates) >= 2
    /\ now.ms # 0

\* C9: the returned sequence is exactly the first count (or all, if fewer)
\* of the instants start + k minutes, 1 <= k <= count * 100, in increasing
\* k, at which all five of minute, hour, day of month, month and day of
\* week match; the second field plays no part.
C9_ExactlyTheFirstMatches ==
    pc = "done" => dates = ExpectedExecutions

C9_Witness ==
    /\ pc = "done"
    /\ "second" \in DOMAIN parsed
    /\ parsed.second # <<"*">>
    /\ count >= 2
    /\ Len(dates) = count
    /\ dates[1].min > now.min + 1
    /\ dates[2].min > dates[1].min + 1

\* C10, as stated: the search starts from the wall clock truncated to whole
\* seconds, so every candidate and every returned timestamp has a zero
\* millisecond component.
C10_WholeSeconds ==
    pc \in {"loop", "done"} =>
        /\ current.ms % 1000 = 0
        /\ \A j \in 1..Len(dates) : dates[j].ms % 1000 = 0

\* C10, amended: the search starts from the wall clock as read, so every
\* candidate and every returned timestamp is the start plus a whole number
\* of minutes and carries the seconds and milliseconds of the start.
C10_WholeMinutesFromStart ==
    pc \in {"loop", "done"} =>
        /\ current = StartPlusMinutes(i)
        /\ \A j \in 1..Len(dates) :
               \E k \in 1..i : dates[j] = StartPlusMinutes(k)

C10_Witness ==
    /\ pc = "done"
    /\ dates # <<>>
    /\ now.ms % 1000 # 0
    /\ dates[1].ms = now.ms

=============================================================================
